---- MODULE Spec2Model ----
(***************************************************************************)
(* A state-machine model of GLSLprimer.c: start-up, the render loop with   *)
(* its viewport update, rotator poll, uniform pushes, draw, swap, event    *)
(* poll, shader reload and exit key, and the shutdown sequence.            *)
(***************************************************************************)
EXTENDS Integers, Sequences, FiniteSets, TLC

(***************************************************************************)
(* Bounds of the model.                                                    *)
(***************************************************************************)
\* window widths and heights range over 0..MaxDim (plus two fixed windows)
MaxDim == 2
\* rotator angles stay within 0 .. 90*MaxTurns degrees
MaxTurns == 1
\* program handles handed out by the GL are 1..MaxHandle
MaxHandle == 2
\* glfwGetTime() returns a tick in 0..MaxTime
MaxTime == 1
\* the per-keypress call counters saturate at MaxCount
MaxCount == 2

(***************************************************************************)
(* IEEE-754 single precision values (GLfloat).  A finite value is m * 2^e  *)
(* with m odd (or m = 0, e = 0), |m| < 2^24; the other kinds are the       *)
(* infinities (sign in m) and NaN.  Exponent range limits (overflow,       *)
(* subnormals) are outside the values this program computes.               *)
(***************************************************************************)
RECURSIVE Pow2(_)
Pow2(n) == IF n = 0 THEN 1 ELSE 2 * Pow2(n - 1)

Abs(x) == IF x < 0 THEN -x ELSE x
Sgn(x) == IF x < 0 THEN -1 ELSE IF x > 0 THEN 1 ELSE 0

FNaN == [k |-> "nan", m |-> 0, e |-> 0]
FInf(s) == [k |-> "inf", m |-> s, e |-> 0]

\* canonical form of m * 2^e: strip the trailing zero bits of m
RECURSIVE Canon(_, _)
Canon(m, e) ==
    IF m = 0 THEN [k |-> "fin", m |-> 0, e |-> 0]
    ELSE IF m % 2 = 0 THEN Canon(m \div 2, e + 1)
    ELSE [k |-> "fin", m |-> m, e |-> e]

\* the number x with n * 2^x in [2^23, 2^24), for 0 < n < 2^24
RECURSIVE NormShift(_)
NormShift(n) == IF n >= 8388608 THEN 0 ELSE 1 + NormShift(2 * n)

\* round the positive value n * 2^e (n < 2^31) to 24 significant bits,
\* to nearest, ties to even; sticky tells that bits were already lost below n
RECURSIVE RoundPos(_, _, _, _)
RoundPos(n, e, guard, sticky) ==
    IF n >= 16777216
    THEN RoundPos(n \div 2, e + 1, n % 2, sticky \/ guard = 1)
    ELSE LET up == guard = 1 /\ (sticky \/ n % 2 = 1)
         IN  Canon(IF up THEN n + 1 ELSE n, e)

\* (float) of an int
IntToFloat(n) ==
    IF n = 0 THEN Canon(0, 0)
    ELSE LET r == RoundPos(Abs(n), 0, 0, FALSE)
         IN  [r EXCEPT !.m = Sgn(n) * r.m]

\* float * float
FMul(a, b) ==
    IF a.k = "nan" \/ b.k = "nan" THEN FNaN
    ELSE IF a.k = "inf" \/ b.k = "inf"
         THEN IF a.m = 0 \/ b.m = 0 THEN FNaN ELSE FInf(Sgn(a.m) * Sgn(b.m))
    ELSE IF a.m = 0 \/ b.m = 0 THEN Canon(0, 0)
    ELSE LET r == RoundPos(Abs(a.m) * Abs(b.m), a.e + b.e, 0, FALSE)
         IN  [r EXCEPT !.m = Sgn(a.m) * Sgn(b.m) * r.m]

\* binary long division: steps more quotient bits of rem / den (rem < den)
RECURSIVE DivBits(_, _, _, _)
DivBits(q, rem, den, steps) ==
    IF steps = 0 THEN <<q, rem>>
    ELSE IF 2 * rem >= den
         THEN DivBits(2 * q + 1, 2 * rem - den, den, steps - 1)
         ELSE DivBits(2 * q, 2 * rem, den, steps - 1)

\* float / float: x/0 is an infinity, 0/0 and inf/inf are NaN
FDiv(a, b) ==
    IF a.k = "nan" \/ b.k = "nan" THEN FNaN
    ELSE IF a.k = "inf"
         THEN IF b.k = "inf" THEN FNaN
              ELSE FInf(Sgn(a.m) * (IF b.m < 0 THEN -1 ELSE 1))
    ELSE IF b.k = "inf" THEN Canon(0, 0)
    ELSE IF b.m = 0
         THEN IF a.m = 0 THEN FNaN ELSE FInf(Sgn(a.m))
    ELSE IF a.m = 0 THEN Canon(0, 0)
    ELSE LET xa  == NormShift(Abs(a.m))
             xb  == NormShift(Abs(b.m))
             na  == Abs(a.m) * Pow2(xa)
             nb  == Abs(b.m) * Pow2(xb)
             low == na < nb
             num == IF low THEN 2 * na ELSE na
             qr  == DivBits(1, num - nb, nb, 24)
             ex  == (a.e - xa) - (b.e - xb) - (IF low THEN 1 ELSE 0) - 24
             r   == RoundPos(qr[1], ex, 0, qr[2] # 0)
         IN  [r EXCEPT !.m = Sgn(a.m) * Sgn(b.m) * r.m]

IsFinite(f) == f.k = "fin"

(***************************************************************************)
(* Program constants.                                                      *)
(***************************************************************************)
Uniforms == {"MV", "P", "time", "tex"}

\* glGetUniformLocation's answer for a name the program does not have
NoLocation == -1

\* return value of main on an initialisation failure
ExitFailure == -1

\* return value of main on the normal path
ExitSuccess == 0

\* exit status of a process killed by SIGSEGV (128 + 11), the outcome of the
\* NULL dereference vidmode->width
SegvStatus == 139

Fl(m, e) == [k |-> "fin", m |-> m, e |-> e]

\* GLfloat Tz[16]: translation by (0, 0, -5), column-major (index i+1 is C index i)
TzInit == << 1, 0, 0, 0,   0, 1, 0, 0,   0, 0, 1, 0,   0, 0, -5, 1 >>

\* GLfloat P[16]: 4, 0, 0, 0,  0, 4, 0, 0,  0, 0, -2.5, -1,  0, 0, -10.5, 0
PInit == << Fl(1, 2), Fl(0, 0), Fl(0, 0), Fl(0, 0),
            Fl(0, 0), Fl(1, 2), Fl(0, 0), Fl(0, 0),
            Fl(0, 0), Fl(0, 0), Fl(-5, -1), Fl(-1, 0),
            Fl(0, 0), Fl(0, 0), Fl(-21, -1), Fl(0, 0) >>

(***************************************************************************)
(* Inputs of the environment.                                              *)
(***************************************************************************)
\* window sizes <<width, height>> glfwGetWindowSize may report (0 when
\* minimized); 800 x 400 is a 2:1 window, 3 x 2 has a ratio that is no float
Sizes == ((0..MaxDim) \X (0..MaxDim)) \cup {<<800, 400>>, <<3, 2>>}

\* pointer movements between two polls, in degrees of rotation
Deltas == {-90, 0, 90}

\* the uniform sets of the shader sources that may be on disk at a compile
ShaderVariants == {Uniforms, Uniforms \ {"time"}}

\* what an uninitialised GLfloat[16] may hold
Garbage == { [i \in 1..16 |-> 0], [i \in 1..16 |-> 7] }

Handles == 1..MaxHandle

VARIABLES
    pc,             \* position in main ("crashed": killed by a signal)
    glfw,           \* "uninit", "inited", "failed", "terminated"
    window,         \* "none", "open", "null", "destroyed"
    shouldClose,    \* the window's close flag
    keySpace,       \* glfwGetKey(window, GLFW_KEY_SPACE)
    keyEsc,         \* glfwGetKey(window, GLFW_KEY_ESCAPE)
    exitStatus,     \* <<>> until main returns, then << return value >>
    diag,           \* diagnostic messages printed
    mesh,           \* myShape: "none", "created", "deleted"
    texture,        \* texture: "none", "ok", "bad"
    programObject,  \* GLuint programObject (0: no program)
    programs,       \* GL program objects: handle -> [live, linked, uniforms]
    currentProgram, \* the program made current by glUseProgram
    loc,            \* location_MV, location_P, location_time, location_tex
    time,           \* float time
    P,              \* GLfloat P[16]
    viewport,       \* the rectangle last given to glViewport
    rotator,        \* rotatorMouse rotator: phi, theta in degrees
    R1, R2, MV, Tz, \* GLfloat R1[16], R2[16], MV[16], Tz[16]
    back, front,    \* contents of the back and front buffers
    gpuCalls,       \* uniforms pushed since the last glUseProgram
    pressCalls      \* glDeleteProgram / createShader calls since SPACE went down

vars == << pc, glfw, window, shouldClose, keySpace, keyEsc, exitStatus, diag,
           mesh, texture, programObject, programs, currentProgram, loc, time,
           P, viewport, rotator, R1, R2, MV, Tz, back, front, gpuCalls,
           pressCalls >>

\* groups of variables an action leaves alone
winVars   == << glfw, window, exitStatus, diag >>
keyVars   == << keySpace, keyEsc >>
assetVars == << mesh, texture >>
progVars  == << programObject, programs, loc >>
matVars   == << R1, R2, MV, Tz >>
bufVars   == << back, front >>

NoProgram == [live |-> FALSE, linked |-> FALSE, uniforms |-> {}]

Init ==
    /\ pc = "start"
    /\ glfw = "uninit"
    /\ window = "none"
    /\ shouldClose = FALSE
    /\ keySpace = FALSE
    /\ keyEsc = FALSE
    /\ exitStatus = << >>
    /\ diag = {}
    /\ mesh = "none"
    /\ texture = "none"
    /\ programObject = 0
    /\ programs = [h \in Handles |-> NoProgram]
    /\ currentProgram = 0
    /\ loc = [n \in Uniforms |-> NoLocation]
    /\ time = 0
    /\ P = PInit
    /\ viewport = [set |-> FALSE, w |-> 0, h |-> 0]
    /\ rotator = [phi |-> 0, theta |-> 0]
    /\ R1 \in Garbage
    /\ R2 \in Garbage
    /\ MV \in Garbage
    /\ Tz = TzInit
    /\ back = "undefined"
    /\ front = "undefined"
    /\ gpuCalls = {}
    /\ pressCalls = [del |-> 0, new |-> 0]

(***************************************************************************)
(* The collaborators main calls: the shader compiler, the GL program       *)
(* objects, the matrix helpers and the mouse rotator.                      *)
(***************************************************************************)
\* the location the linker gives a uniform
LocationOf(name) ==
    CASE name = "MV" -> 0 [] name = "P" -> 1 [] name = "time" -> 2 [] name = "tex" -> 3

\* glGetUniformLocation(prog, name) against the program objects progs
glGetUniformLocation(progs, prog, name) ==
    IF prog \in Handles /\ progs[prog].live /\ progs[prog].linked
       /\ name \in progs[prog].uniforms
    THEN LocationOf(name)
    ELSE NoLocation

\* createShader(vertexfile, fragmentfile): on a failure an unusable handle,
\* which is 0 or the name of a new program object that did not link; else
\* the name of a new, linked program with the uniforms of the sources
CreateShaderOutcomes(progs) ==
    {[handle |-> 0, linked |-> FALSE, uniforms |-> {}]} \cup
    {[handle |-> h, linked |-> FALSE, uniforms |-> {}] :
        h \in {x \in Handles : ~progs[x].live}} \cup
    {[handle |-> h, linked |-> TRUE, uniforms |-> u] :
        h \in {x \in Handles : ~progs[x].live}, u \in ShaderVariants}

\* the program objects after createShader returned outcome o
AfterCreate(progs, o) ==
    IF o.handle = 0 THEN progs
    ELSE [progs EXCEPT ![o.handle] =
              [live |-> TRUE, linked |-> o.linked, uniforms |-> o.uniforms]]

\* glDeleteProgram(h): silently ignores 0 and names that are no program
glDeleteProgram(progs, h) ==
    IF h \in Handles /\ progs[h].live THEN [progs EXCEPT ![h] = NoProgram] ELSE progs

\* glUseProgram(h): 0 unbinds; a name that is no program, or a program that
\* is not linked, is an error and leaves the current program as it was
glUseProgram(progs, cur, h) ==
    IF h = 0 THEN 0
    ELSE IF h \in Handles /\ progs[h].live /\ progs[h].linked THEN h
    ELSE cur

\* cos and sin of an angle given in degrees, a multiple of 90
Cos(deg) == CASE deg % 360 = 0 -> 1 [] deg % 360 = 90 -> 0
              [] deg % 360 = 180 -> -1 [] deg % 360 = 270 -> 0
Sin(deg) == CASE deg % 360 = 0 -> 0 [] deg % 360 = 90 -> 1
              [] deg % 360 = 180 -> 0 [] deg % 360 = 270 -> -1

mat4identity == << 1, 0, 0, 0,   0, 1, 0, 0,   0, 0, 1, 0,   0, 0, 0, 1 >>

\* mat4roty(M, angle): M becomes the rotation about the y axis
mat4roty(deg) ==
    [mat4identity EXCEPT ![1] = Cos(deg), ![3] = -Sin(deg),
                         ![9] = Sin(deg), ![11] = Cos(deg)]

\* mat4rotx(M, angle): M becomes the rotation about the x axis
mat4rotx(deg) ==
    [mat4identity EXCEPT ![6] = Cos(deg), ![7] = Sin(deg),
                         ![10] = -Sin(deg), ![11] = Cos(deg)]

\* mat4mult(M1, M2, Mout): Mout = M1 * M2, column-major, computed into a
\* temporary so that Mout may be one of the operands
mat4mult(M1, M2) ==
    [x \in 1..16 |->
        LET i == (x - 1) % 4
            j == (x - 1) \div 4
        IN  M1[i + 1] * M2[j * 4 + 1] + M1[i + 5] * M2[j * 4 + 2]
            + M1[i + 9] * M2[j * 4 + 3] + M1[i + 13] * M2[j * 4 + 4]]

\* the rotator states one pollRotatorMouse may lead to: with the button held
\* the pointer movement is added to the angles, otherwise nothing changes
PollRotatorOutcomes(rot) ==
    {rot} \cup
    {[phi |-> rot.phi + dx, theta |-> rot.theta + dy] : dx \in Deltas, dy \in Deltas}

AngleInBounds(rot) ==
    /\ rot.phi \in 0..(90 * MaxTurns)
    /\ rot.theta \in 0..(90 * MaxTurns)

Bump(n) == IF n < MaxCount THEN n + 1 ELSE MaxCount

(***************************************************************************)
(* Start-up (main, up to the loop).                                        *)
(***************************************************************************)
\* initRotatorMouse, then glfwInit: bail out if unsuccessful
GlfwInit ==
    /\ pc = "start"
    /\ rotator' = [phi |-> 0, theta |-> 0]
    /\ \E ok \in BOOLEAN :
        IF ok
        THEN /\ glfw' = "inited"
             /\ pc' = "window"
             /\ UNCHANGED << diag, exitStatus >>
        ELSE /\ glfw' = "failed"
             /\ diag' = diag \cup {"Failed to initialise GLFW. Exiting."}
             /\ exitStatus' = << ExitFailure >>
             /\ pc' = "done"
    /\ UNCHANGED << window, shouldClose, keyVars, assetVars, progVars,
                    currentProgram, time, P, viewport, matVars, bufVars,
                    gpuCalls, pressCalls >>

\* what the start of the window creation may meet: no video mode
\* (glfwGetPrimaryMonitor or glfwGetVideoMode returned NULL), a NULL window,
\* or an open window
WindowOutcomes == {"novidmode", "null", "open"}

\* glfwGetPrimaryMonitor, glfwGetVideoMode, glfwWindowHint, glfwCreateWindow.
\* vidmode is dereferenced unchecked in the glfwCreateWindow call: when it is
\* NULL the process is killed by the signal, with no message and no
\* glfwTerminate.  On a NULL window: print, glfwTerminate and return -1;
\* otherwise make the context current, load the extensions, print the GL
\* strings.
CreateWindow ==
    /\ pc = "window"
    /\ \E o \in WindowOutcomes :
        CASE o = "novidmode" ->
                /\ exitStatus' = << SegvStatus >>
                /\ pc' = "crashed"
                /\ UNCHANGED << window, glfw, diag >>
          [] o = "null" ->
                /\ window' = "null"
                /\ diag' = diag \cup {"Failed to open GLFW window. Exiting."}
                /\ glfw' = "terminated"
                /\ exitStatus' = << ExitFailure >>
                /\ pc' = "done"
          [] o = "open" ->
                /\ window' = "open"
                /\ pc' = "geometry"
                /\ UNCHANGED << glfw, diag, exitStatus >>
    /\ UNCHANGED << shouldClose, keyVars, assetVars, progVars, currentProgram,
                    time, P, viewport, rotator, matVars, bufVars, gpuCalls,
                    pressCalls >>

\* soupInit, soupCreateSphere, soupPrintInfo (none of them reports a failure)
CreateGeometry ==
    /\ pc = "geometry"
    /\ mesh' = "created"
    /\ pc' = "texture"
    /\ UNCHANGED << winVars, shouldClose, keyVars, texture, progVars,
                    currentProgram, time, P, viewport, rotator, matVars,
                    bufVars, gpuCalls, pressCalls >>

\* createTexture: the result is not examined
CreateTexture ==
    /\ pc = "texture"
    /\ texture' \in {"ok", "bad"}
    /\ pc' = "shader"
    /\ UNCHANGED << winVars, shouldClose, keyVars, mesh, progVars,
                    currentProgram, time, P, viewport, rotator, matVars,
                    bufVars, gpuCalls, pressCalls >>

\* createShader and the four glGetUniformLocation calls; the handle is not
\* examined
CreateShaderAndLocations ==
    /\ pc = "shader"
    /\ \E o \in CreateShaderOutcomes(programs) :
        /\ programObject' = o.handle
        /\ programs' = AfterCreate(programs, o)
        /\ loc' = [n \in Uniforms |-> glGetUniformLocation(programs', o.handle, n)]
    /\ pc' = "loop"
    /\ UNCHANGED << winVars, shouldClose, keyVars, assetVars, currentProgram,
                    time, P, viewport, rotator, matVars, bufVars, gpuCalls,
                    pressCalls >>

(***************************************************************************)
(* The main loop, one action per step of an iteration.                     *)
(***************************************************************************)
\* while (!glfwWindowShouldClose(window)): the flag is clear, enter the body
LoopEnter ==
    /\ pc = "loop"
    /\ ~shouldClose
    /\ pc' = "clear"
    /\ UNCHANGED << winVars, shouldClose, keyVars, assetVars, progVars,
                    currentProgram, time, P, viewport, rotator, matVars,
                    bufVars, gpuCalls, pressCalls >>

\* while (!glfwWindowShouldClose(window)): the flag is set, leave the loop
LoopExit ==
    /\ pc = "loop"
    /\ shouldClose
    /\ pc' = "cleanup"
    /\ UNCHANGED << winVars, shouldClose, keyVars, assetVars, progVars,
                    currentProgram, time, P, viewport, rotator, matVars,
                    bufVars, gpuCalls, pressCalls >>

\* computeFPS, glClearColor, glClear
ClearFrame ==
    /\ pc = "clear"
    /\ back' = "cleared"
    /\ pc' = "viewport"
    /\ UNCHANGED << winVars, shouldClose, keyVars, assetVars, progVars,
                    currentProgram, time, P, viewport, rotator, matVars,
                    front, gpuCalls, pressCalls >>

\* the assignment with width and height exchanged: P[0] = P[5]*width/height
AspectAdjust_Swapped(Pm, width, height) ==
    [Pm EXCEPT ![1] = FDiv(FMul(Pm[6], IntToFloat(width)), IntToFloat(height))]

\* setupViewport's assignment P[0] = P[5]*height/width
AspectAdjust(Pm, width, height) ==
    [Pm EXCEPT ![1] = FDiv(FMul(Pm[6], IntToFloat(height)), IntToFloat(width))]

\* setupViewport(window, P): glfwGetWindowSize, the assignment, glViewport
SetupViewport ==
    /\ pc = "viewport"
    /\ \E size \in Sizes :
        /\ P' = AspectAdjust(P, size[1], size[2])
        /\ viewport' = [set |-> TRUE, w |-> size[1], h |-> size[2]]
    /\ pc' = "rotator"
    /\ UNCHANGED << winVars, shouldClose, keyVars, assetVars, progVars,
                    currentProgram, time, rotator, matVars, bufVars, gpuCalls,
                    pressCalls >>

\* pollRotatorMouse(window, &rotator)
PollRotator ==
    /\ pc = "rotator"
    /\ \E r \in PollRotatorOutcomes(rotator) :
        /\ AngleInBounds(r)
        /\ rotator' = r
    /\ pc' = "use"
    /\ UNCHANGED << winVars, shouldClose, keyVars, assetVars, progVars,
                    currentProgram, time, P, viewport, matVars, bufVars,
                    gpuCalls, pressCalls >>

\* glUseProgram(programObject)
UseProgram ==
    /\ pc = "use"
    /\ currentProgram' = glUseProgram(programs, currentProgram, programObject)
    /\ gpuCalls' = {}
    /\ pc' = "texTime"
    /\ UNCHANGED << winVars, shouldClose, keyVars, assetVars, progVars, time,
                    P, viewport, rotator, matVars, bufVars, pressCalls >>

\* the names among ns whose cached location is not -1
Located(ns) == {n \in ns : loc[n] # NoLocation}

\* if (location_tex != -1) glUniform1i; if (location_time != -1) { time =
\* (float)glfwGetTime(); glUniform1f }
PushTexAndTime ==
    /\ pc = "texTime"
    /\ gpuCalls' = gpuCalls \cup Located({"tex", "time"})
    /\ IF loc["time"] # NoLocation
       THEN time' \in 0..MaxTime
       ELSE time' = time
    /\ pc' = "mv"
    /\ UNCHANGED << winVars, shouldClose, keyVars, assetVars, progVars,
                    currentProgram, P, viewport, rotator, matVars, bufVars,
                    pressCalls >>

\* ComputeMV with mat4mult(R2,MV,MV) for mat4mult(R2,R1,MV): the MV of the
\* frame before is multiplied in
ComputeMV_Accumulating ==
    /\ pc = "mv"
    /\ R1' = mat4roty(rotator.phi)
    /\ R2' = mat4rotx(rotator.theta)
    /\ MV' = mat4mult(Tz, mat4mult(R2', MV))
    /\ pc' = "matrices"
    /\ UNCHANGED << winVars, shouldClose, keyVars, assetVars, progVars,
                    currentProgram, time, P, viewport, rotator, Tz, bufVars,
                    gpuCalls, pressCalls >>

\* mat4roty(R1, phi); mat4rotx(R2, theta); mat4mult(R2,R1,MV);
\* mat4mult(Tz,MV,MV)
ComputeMV ==
    /\ pc = "mv"
    /\ R1' = mat4roty(rotator.phi)
    /\ R2' = mat4rotx(rotator.theta)
    /\ MV' = mat4mult(Tz, mat4mult(R2', R1'))
    /\ pc' = "matrices"
    /\ UNCHANGED << winVars, shouldClose, keyVars, assetVars, progVars,
                    currentProgram, time, P, viewport, rotator, Tz, bufVars,
                    gpuCalls, pressCalls >>

\* if (location_MV != -1) glUniformMatrix4fv(MV); if (location_P != -1)
\* glUniformMatrix4fv(P)
PushMatrices ==
    /\ pc = "matrices"
    /\ gpuCalls' = gpuCalls \cup Located({"MV", "P"})
    /\ pc' = "draw"
    /\ UNCHANGED << winVars, shouldClose, keyVars, assetVars, progVars,
                    currentProgram, time, P, viewport, rotator, matVars,
                    bufVars, pressCalls >>

\* glEnable(GL_DEPTH_TEST), glEnable(GL_CULL_FACE), glCullFace, soupRender
Draw ==
    /\ pc = "draw"
    /\ back' = "drawn"
    /\ pc' = "unbind"
    /\ UNCHANGED << winVars, shouldClose, keyVars, assetVars, progVars,
                    currentProgram, time, P, viewport, rotator, matVars,
                    front, gpuCalls, pressCalls >>

\* Unbind without the glUseProgram(0) call
Unbind_Missing ==
    /\ pc = "unbind"
    /\ gpuCalls' = {}
    /\ pc' = "swap"
    /\ UNCHANGED << winVars, shouldClose, keyVars, assetVars, progVars,
                    currentProgram, time, P, viewport, rotator, matVars,
                    bufVars, pressCalls >>

\* glUseProgram(0)
Unbind ==
    /\ pc = "unbind"
    /\ currentProgram' = glUseProgram(programs, currentProgram, 0)
    /\ gpuCalls' = {}
    /\ pc' = "swap"
    /\ UNCHANGED << winVars, shouldClose, keyVars, assetVars, progVars, time,
                    P, viewport, rotator, matVars, bufVars, pressCalls >>

\* glfwSwapBuffers(window)
SwapBuffers ==
    /\ pc = "swap"
    /\ front' = back
    /\ back' = "undefined"
    /\ pc' = "poll"
    /\ UNCHANGED << winVars, shouldClose, keyVars, assetVars, progVars,
                    currentProgram, time, P, viewport, rotator, matVars,
                    gpuCalls, pressCalls >>

\* glfwPollEvents(): the key states and the close flag follow the user
PollEvents ==
    /\ pc = "poll"
    /\ \E sp \in BOOLEAN, esc \in BOOLEAN, close \in BOOLEAN :
        /\ keySpace' = sp
        /\ keyEsc' = esc
        /\ shouldClose' = (shouldClose \/ close)
        /\ pressCalls' = IF sp /\ ~keySpace THEN [del |-> 0, new |-> 0]
                         ELSE pressCalls
    /\ pc' = "reload"
    /\ UNCHANGED << winVars, assetVars, progVars, currentProgram, time, P,
                    viewport, rotator, matVars, bufVars, gpuCalls >>

\* ReloadShader that gives up when the recompilation fails: it requests the
\* end of the loop
ReloadShader_FatalOnFailure ==
    /\ pc = "reload"
    /\ IF keySpace
       THEN \E o \in CreateShaderOutcomes(glDeleteProgram(programs, programObject)) :
              /\ programObject' = o.handle
              /\ programs' = AfterCreate(glDeleteProgram(programs, programObject), o)
              /\ pressCalls' = [del |-> Bump(pressCalls.del),
                                new |-> Bump(pressCalls.new)]
              /\ shouldClose' = (shouldClose \/ o.handle = 0)
       ELSE UNCHANGED << programObject, programs, pressCalls, shouldClose >>
    /\ pc' = "esc"
    /\ UNCHANGED << winVars, keyVars, assetVars, loc, currentProgram, time, P,
                    viewport, rotator, matVars, bufVars, gpuCalls >>

\* if (glfwGetKey(window, GLFW_KEY_SPACE)) { glDeleteProgram(programObject);
\* programObject = createShader(...); }  The locations are not queried again.
ReloadShader ==
    /\ pc = "reload"
    /\ IF keySpace
       THEN \E o \in CreateShaderOutcomes(glDeleteProgram(programs, programObject)) :
              /\ programObject' = o.handle
              /\ programs' = AfterCreate(glDeleteProgram(programs, programObject), o)
              /\ pressCalls' = [del |-> Bump(pressCalls.del),
                                new |-> Bump(pressCalls.new)]
       ELSE UNCHANGED << programObject, programs, pressCalls >>
    /\ pc' = "esc"
    /\ UNCHANGED << winVars, shouldClose, keyVars, assetVars, loc,
                    currentProgram, time, P, viewport, rotator, matVars,
                    bufVars, gpuCalls >>

\* CheckExitKey without the glfwSetWindowShouldClose call
CheckExitKey_NoRequest ==
    /\ pc = "esc"
    /\ pc' = "loop"
    /\ UNCHANGED << winVars, shouldClose, keyVars, assetVars, progVars,
                    currentProgram, time, P, viewport, rotator, matVars,
                    bufVars, gpuCalls, pressCalls >>

\* if (glfwGetKey(window, GLFW_KEY_ESCAPE)) glfwSetWindowShouldClose(window, GL_TRUE)
CheckExitKey ==
    /\ pc = "esc"
    /\ shouldClose' = (shouldClose \/ keyEsc)
    /\ pc' = "loop"
    /\ UNCHANGED << winVars, keyVars, assetVars, progVars, currentProgram,
                    time, P, viewport, rotator, matVars, bufVars, gpuCalls,
                    pressCalls >>

\* glfwDestroyWindow(window); glfwTerminate(); return 0
Shutdown ==
    /\ pc = "cleanup"
    /\ window' = "destroyed"
    /\ glfw' = "terminated"
    /\ exitStatus' = << ExitSuccess >>
    /\ pc' = "done"
    /\ UNCHANGED << diag, shouldClose, keyVars, assetVars, progVars,
                    currentProgram, time, P, viewport, rotator, matVars,
                    bufVars, gpuCalls, pressCalls >>

Next ==
    \/ GlfwInit
    \/ CreateWindow
    \/ CreateGeometry
    \/ CreateTexture
    \/ CreateShaderAndLocations
    \/ LoopEnter
    \/ LoopExit
    \/ ClearFrame
    \/ SetupViewport
    \/ PollRotator
    \/ UseProgram
    \/ PushTexAndTime
    \/ ComputeMV
    \/ PushMatrices
    \/ Draw
    \/ Unbind
    \/ SwapBuffers
    \/ PollEvents
    \/ ReloadShader
    \/ CheckExitKey
    \/ Shutdown

Spec == Init /\ [][Next]_vars

(***************************************************************************)
(* Positions of main that lie inside the while loop (the Running state),   *)
(* and those at which the program made current by glUseProgram is in use.  *)
(***************************************************************************)
RunningPcs == {"loop", "clear", "viewport", "rotator", "use", "texTime", "mv",
               "matrices", "draw", "unbind", "swap", "poll", "reload", "esc"}

BoundPcs == {"texTime", "mv", "matrices", "draw", "unbind"}

LiveHandles == {h \in Handles : programs[h].live}

\* the handles glUseProgram accepts: live, linked program objects
UsableHandles == {h \in Handles : programs[h].live /\ programs[h].linked}

(***************************************************************************)
(* C1.  Start-up failures.                                                 *)
(***************************************************************************)
\* C1 as stated: a failure of any start-up step (window/context creation,
\* shader compilation, texture load) ends the program with a non-zero exit
\* status and a diagnostic message, and the loop is never entered after it.
C1_AnyStartupFailureTerminates ==
    (\/ glfw = "failed"
     \/ window = "null"
     \/ pc = "crashed"
     \/ texture = "bad"
     \/ (pc = "loop" /\ programObject = 0 /\ front = "undefined"))
    => /\ pc \notin RunningPcs
       /\ pc \in {"done", "crashed"} =>
             exitStatus # << ExitSuccess >> /\ diag # {}

(***************************************************************************)
(* C2.  Shader reload per keypress.                                        *)
(***************************************************************************)
\* C2 as stated: for one press of SPACE, however long it is held, the old
\* program is destroyed once and a new one requested once.
C2_ReloadOncePerPress ==
    /\ pressCalls.del <= 1
    /\ pressCalls.new <= 1
    /\ (keySpace /\ pc = "esc") => pressCalls.del = 1 /\ pressCalls.new = 1

(***************************************************************************)
(* C3.  Uniform pushes and the program that is bound.                      *)
(***************************************************************************)
\* C3 as stated: a uniform is pushed only if the program currently bound
\* has that name.
C3_PushOnlyIfPresent ==
    \A n \in gpuCalls :
        /\ currentProgram \in Handles
        /\ programs[currentProgram].live
        /\ n \in programs[currentProgram].uniforms

(***************************************************************************)
(* C4.  The exit key.                                                      *)
(***************************************************************************)
\* C4: once ESC has been seen pressed at the hot-key check, the close flag
\* is set and the program is at the loop test or beyond it: no frame is
\* cleared, drawn or swapped any more; at the end the window is destroyed,
\* GLFW is terminated and main has returned 0.
C4_EscapeEndsLoop ==
    keyEsc =>
        /\ pc \in {"reload", "esc", "loop", "cleanup", "done"}
        /\ pc \in {"loop", "cleanup", "done"} => shouldClose
        /\ pc = "done" => /\ window = "destroyed"
                          /\ glfw = "terminated"
                          /\ exitStatus = << ExitSuccess >>

C4_Witness ==
    /\ keyEsc /\ pc = "done" /\ front = "drawn"
    /\ window = "destroyed" /\ exitStatus = << ExitSuccess >>

(***************************************************************************)
(* C5, C6.  The viewport update.                                           *)
(***************************************************************************)
\* f is the float nearest to num/den (num, den small positive integers):
\* either exactly num/den, or a full 24-bit mantissa within half a unit in
\* the last place of it
NearestFloat(f, num, den) ==
    /\ f.k = "fin"
    /\ \/ IF f.e >= 0 THEN f.m * Pow2(f.e) * den = num
                      ELSE f.m * den = num * Pow2(-f.e)
       \/ /\ f.m >= 8388608
          /\ f.e < 0
          /\ 2 * Abs(f.m * den - num * Pow2(-f.e)) <= den

\* C5: whenever the viewport has been set for a window of width > 0 and
\* height > 0, P[0] is P[5]*height/width in float arithmetic, with P[5] = 4
\* (so 800 x 400 gives P[0] = 2), and no other element of P has changed.
C5_AspectElement ==
    /\ (viewport.set /\ viewport.w > 0 /\ viewport.h > 0) =>
          /\ P[6] = Fl(1, 2)
          /\ NearestFloat(P[1], 4 * viewport.h, viewport.w)
          /\ (viewport.w = 800 /\ viewport.h = 400) => P[1] = Fl(1, 1)
    /\ \A i \in 2..16 : P[i] = PInit[i]

C5_Witness ==
    /\ pc = "draw" /\ viewport.w = 3 /\ viewport.h = 2
    /\ P[1] = Fl(11184811, -22)

\* C6 as stated: with width 0 or height 0 the update divides by no zero and
\* leaves P finite.
C6_ZeroSizeGuarded ==
    viewport.set => \A i \in 1..16 : IsFinite(P[i])

(***************************************************************************)
(* C7.  The mesh.                                                          *)
(***************************************************************************)
\* C7 as stated: the mesh exists, unchanged, throughout the loop and has
\* been destroyed when main has returned 0.
C7_MeshLifecycle ==
    /\ pc \in RunningPcs => mesh = "created"
    /\ (pc = "done" /\ exitStatus = << ExitSuccess >>) => mesh = "deleted"

(***************************************************************************)
(* C8.  A failed reload is a soft failure.                                 *)
(***************************************************************************)
\* C8: the reload step, whatever the compiler returns, goes on to the exit
\* key check and neither sets the close flag nor returns from main; the
\* loop is left only with the close flag set, to the shutdown, and the
\* close flag is set only by glfwPollEvents (the window was closed) or by
\* the exit key check with ESC pressed.
C8_ReloadFailureIsSoft ==
    [][ /\ pc = "reload" =>
              /\ pc' = "esc"
              /\ shouldClose' = shouldClose
              /\ exitStatus' = exitStatus
        /\ (pc \in RunningPcs /\ pc' \notin RunningPcs) =>
              shouldClose /\ pc' = "cleanup"
        /\ (~shouldClose /\ shouldClose') =>
              (pc = "poll" \/ (pc = "esc" /\ keyEsc)) ]_vars

\* a frame drawn with handle 0 after a reload that failed
C8_Witness ==
    /\ programObject = 0 /\ pressCalls.new >= 1
    /\ pc = "swap" /\ back = "drawn" /\ ~shouldClose

(***************************************************************************)
(* C9.  The Model-View matrix.                                             *)
(***************************************************************************)
\* Translation(0,0,-5) x RotationX(theta) x RotationY(phi), written out
ModelView(phi, theta) ==
    << Cos(phi), Sin(theta) * Sin(phi), -(Cos(theta) * Sin(phi)), 0,
       0, Cos(theta), Sin(theta), 0,
       Sin(phi), -(Sin(theta) * Cos(phi)), Cos(theta) * Cos(phi), 0,
       0, 0, -5, 1 >>

\* C9: from its computation to the end of the iteration MV is
\* Translation(0,0,-5) x RotationX(theta) x RotationY(phi) of the rotator's
\* current angles, whatever MV, R1, R2 held before, whatever the time and
\* however many frames and reloads came before; Tz never changes.
C9_ModelViewOfAngles ==
    /\ pc \in {"matrices", "draw", "unbind", "swap", "poll", "reload", "esc"} =>
          MV = ModelView(rotator.phi, rotator.theta)
    /\ Tz = TzInit

C9_Witness ==
    /\ pc = "matrices" /\ front = "drawn" /\ pressCalls.new >= 1
    /\ rotator.phi = 90 /\ rotator.theta = 90
    /\ MV = << 0, 1, 0, 0,   0, 0, 1, 0,   1, 0, 0, 0,   0, 0, -5, 1 >>

(***************************************************************************)
(* C10.  Program handles.                                                  *)
(***************************************************************************)
\* C10 as stated: at most one program object is live; programObject is 0
\* or the live one; while uniforms are pushed and the mesh is drawn the
\* program bound is programObject, a program that exists; outside that phase,
\* and so where the reload deletes, no program is bound.
C10_DrawnWithProgramBound ==
    /\ Cardinality(LiveHandles) <= 1
    /\ programObject = 0 \/ programObject \in LiveHandles
    /\ pc \in BoundPcs =>
          currentProgram = programObject /\ currentProgram \in UsableHandles
    /\ pc \notin BoundPcs => currentProgram = 0

\* C10 amended: at most one program object is live; programObject is 0 or
\* the live one; a program is bound only between glUseProgram(programObject)
\* and glUseProgram(0), and it is then programObject, live and linked, never
\* a deleted one; in that phase the bound program is programObject if the
\* last compilation succeeded and none if it failed, so that after a failed
\* compilation the uniform pushes and the draw call happen with no program
\* bound; outside the phase, and so where the reload deletes, none is bound.
C10_ProgramHandles ==
    /\ Cardinality(LiveHandles) <= 1
    /\ programObject = 0 \/ programObject \in LiveHandles
    /\ currentProgram # 0 =>
          /\ pc \in BoundPcs
          /\ currentProgram = programObject
          /\ currentProgram \in UsableHandles
    /\ pc \in BoundPcs =>
          currentProgram =
             (IF programObject \in UsableHandles THEN programObject ELSE 0)
    /\ pc \notin BoundPcs => currentProgram = 0

\* after a reload that failed with a program object that did not link, a
\* frame with uniform pushes and the draw call while no program is bound
C10_Witness ==
    /\ pc = "unbind" /\ back = "drawn" /\ gpuCalls # {}
    /\ pressCalls.new >= 1
    /\ programObject \in LiveHandles \ UsableHandles
    /\ currentProgram = 0

====
